---- MODULE Spec2Model ----
(***************************************************************************)
(* Return&Reward (src/ReturnAndReward/src/App.jsx): the session controller *)
(* of the lost-and-found application.  One browser session (Clients) is    *)
(* modelled handler by handler against the shared document store; of the   *)
(* sessions of the other users the model keeps the writes their handlers   *)
(* commit to the store.                                                    *)
(*                                                                         *)
(* Strings that the code compares, sorts, trims or concatenates (principal *)
(* ids, item ids, scan input, error messages) are sequences of UTF-16 code *)
(* units.  A JavaScript null/undefined is the empty sequence <<>>; a value *)
(* that may be null is <<>> or the one-element sequence <<value>>.         *)
(*                                                                         *)
(* One action is one run of the event loop: an event handler up to its     *)
(* first await, the continuation of an await, or a listener callback,      *)
(* together with the render and the effects it triggers.  A store write is *)
(* issued by the handler and takes effect when the store acknowledges it   *)
(* (Resolve...), or is rejected and has no effect (Fail...).  A listener   *)
(* callback receives the contents of the store at the time it runs.        *)
(*                                                                         *)
(* Left out: itemName, description, photoURL and email (only rendered),    *)
(* lastMessageAt of a chat, and the messages of a chat.                    *)
(***************************************************************************)
EXTENDS Integers, Sequences, FiniteSets, Bags, TLC

\* ------------------------------------------------------------------ bounds

\* Items that can be registered in one run.
MaxItems == 1
\* Asynchronous handlers one session can have in flight at a time.
MaxPending == 1
\* Granularity of the server clock: ticks (distinct timestamps) per second.
TicksPerSecond == 2
\* At most this many messages are sent.
MaxMessages == 2

\* ----------------------------------------------------------------- strings

Clients == {"c1"}

\* "a" and "b"
UidA == <<97>>
UidB == <<98>>
Principals == {UidA, UidB}
\* The account used in the modelled session, and those of the other sessions.
Accounts == {UidA}
Others == {UidB}

\* " " and the characters String.prototype.trim removes
Space == <<32>>
WhiteSpace == {32, 9, 10}

\* Store-generated document ids: "x", "y", "z", ...
ItemIdPool == {<<119 + n>> : n \in 1..MaxItems}
\* "q": a well-formed id that no item has
UnknownId == <<113>>
\* "constructor": a property every JavaScript object inherits
ProtoKey == <<99,111,110,115,116,114,117,99,116,111,114>>
ObjectPrototypeKeys == {ProtoKey}

AnonymousUser == "Anonymous User"
ProfileNames == {"Alice"}
\* What the profile form accepts as a name: any text that is not blank.
FormNames == ProfileNames \cup {AnonymousUser}

Views == {"login", "profile-setup", "dashboard", "add-item", "item-qr",
          "scan", "user-profile", "chat"}

\* `No item found with ID: ${itemId}`
MsgNoItem(itemId) ==
    <<78,111,32,105,116,101,109,32,102,111,117,110,100,32,119,105,116,104,
      32,73,68,58,32>> \o itemId
MsgOwnItemAsNotFound == MsgNoItem(<<>>)

\* 'This is your own registered item.'
MsgOwnItem ==
    <<84,104,105,115,32,105,115,32,121,111,117,114,32,111,119,110,32,114,
      101,103,105,115,116,101,114,101,100,32,105,116,101,109,46>>
\* 'Item found, but owner profile is missing or inaccessible.'
MsgNoOwner ==
    <<73,116,101,109,32,102,111,117,110,100,44,32,98,117,116,32,111,119,
      110,101,114,32,112,114,111,102,105,108,101,32,105,115,32,109,105,
      115,115,105,110,103,32,111,114,32,105,110,97,99,99,101,115,115,105,
      98,108,101,46>>
\* "App not initialized."
MsgNotInitialized ==
    <<65,112,112,32,110,111,116,32,105,110,105,116,105,97,108,105,122,101,
      100,46>>

\* ------------------------------------------------------------------- state

VARIABLES
    \* the document store
    itemsDb,        \* public items collection: item id -> document
    privProfiles,   \* users/{uid}/user_profile/data: uid -> profile
    pubProfiles,    \* public user_profiles collection: uid -> profile
    chatsDb,        \* public chats collection: chat id -> document
    messagesDb,     \* messages subcollections: chat id -> documents, as added
    clock,          \* server clock, in ticks
    \* one App component per client
    userId, isAuthReady, userProfile,
    users, items, chats,
    view, selectedItem, selectedUser, selectedChat, modal,
    pend,           \* handlers suspended at an await
    subs,           \* the listeners each component has subscribed
    \* one ScanView component per client
    scanError,      \* its error state
    scanWaits,      \* submissions of the mounted ScanView that await
    msgSeen         \* what the messages query of each component delivered

storeVars == <<itemsDb, privProfiles, pubProfiles, chatsDb, messagesDb, clock>>
authVars == <<userId, isAuthReady, userProfile>>
cacheVars == <<users, items, chats>>
selVars == <<selectedItem, selectedUser, selectedChat>>
vars == <<itemsDb, privProfiles, pubProfiles, chatsDb, messagesDb, clock,
          userId, isAuthReady, userProfile, users, items, chats,
          view, selectedItem, selectedUser, selectedChat, modal,
          pend, subs, scanError, scanWaits, msgSeen>>

\* ----------------------------------------------------------------- helpers

\* A map with one more (or one replaced) entry.
Put(f, k, v) == [x \in (DOMAIN f) \cup {k} |-> IF x = k THEN v ELSE f[x]]

\* Lexicographic order on code-unit sequences, as Array.prototype.sort
\* without a comparator orders strings.
RECURSIVE StrLeq(_, _)
StrLeq(s, t) ==
    IF s = <<>> THEN TRUE
    ELSE IF t = <<>> THEN FALSE
    ELSE IF s[1] # t[1] THEN s[1] < t[1]
    ELSE StrLeq(Tail(s), Tail(t))

\* [uid1, uid2].sort()
SortPair(uid1, uid2) ==
    IF StrLeq(uid1, uid2) THEN <<uid1, uid2>> ELSE <<uid2, uid1>>

GetChatDocIdUnsorted(uid1, uid2) == uid1 \o <<95>> \o uid2

getChatDocId(uid1, uid2) ==
    LET sortedUids == SortPair(uid1, uid2)
    IN  sortedUids[1] \o <<95>> \o sortedUids[2]

\* String.prototype.trim
RECURSIVE TrimStart(_)
TrimStart(s) ==
    IF s # <<>> /\ s[1] \in WhiteSpace THEN TrimStart(Tail(s)) ELSE s

RECURSIVE TrimEnd(_)
TrimEnd(s) ==
    IF s # <<>> /\ s[Len(s)] \in WhiteSpace
    THEN TrimEnd(SubSeq(s, 1, Len(s) - 1)) ELSE s

Trim(s) == TrimEnd(TrimStart(s))

Contains(text, s) ==
    \E i \in 1..(Len(text) - Len(s) + 1) : SubSeq(text, i, i + Len(s) - 1) = s

\* A Firestore Timestamp of the server clock.
Timestamp(tick) ==
    [seconds |-> tick \div TicksPerSecond, nanoseconds |-> tick % TicksPerSecond]

\* createdAt?.seconds || 0
Seconds(createdAt) == IF createdAt = <<>> THEN 0 ELSE createdAt[1].seconds

Item(id, ownerId, status, createdAt) ==
    [id |-> id, ownerId |-> ownerId, status |-> status, createdAt |-> createdAt]

Profile(uid, name) == [uid |-> uid, name |-> name]

\* A chat object; messages is the list it holds, or <<>> without the field.
Chat(id, participants, itemId) ==
    [id |-> id, participants |-> participants, itemId |-> itemId,
     messages |-> <<>>]

\* { ...chat, messages: msgs }
WithMessages(chat, msgs) == [chat EXCEPT !.messages = <<msgs>>]

\* A document of a messages subcollection.
Message(id, senderId, text, timestamp) ==
    [id |-> id, senderId |-> senderId, text |-> text, timestamp |-> timestamp]

ModalClosed == [isOpen |-> FALSE, title |-> "", item |-> <<>>]
Notice(title) == [isOpen |-> TRUE, title |-> title, item |-> <<>>]
ConfirmReturn(item) ==
    [isOpen |-> TRUE, title |-> "Confirm Item Return", item |-> <<item>>]

\* The fields of selectedItem that a suspended handler or the modal's
\* onConfirm reads after it was created: id and ownerId.
Captured(item) == Item(item.id, item.ownerId, "", <<>>)

Task(kind, uid, item, chat, name) ==
    [kind |-> kind, acked |-> 0, uid |-> uid, item |-> item, chat |-> chat,
     name |-> name]

\* ------------------------------------------------------------ derived state

\* items[key] on the plain object the items listener builds: an own
\* property, else a property inherited from Object.prototype, else
\* undefined.  An inherited property is an object with no item field.
ItemsLookup(cache, key) ==
    IF key \in DOMAIN cache THEN <<cache[key]>>
    ELSE IF key \in ObjectPrototypeKeys
         THEN <<Item(<<>>, <<>>, "undefined", <<>>)>>
         ELSE <<>>

\* users[uid] || (point read)
UsersLookup(cache, uid) ==
    IF uid \in DOMAIN cache THEN <<cache[uid]>> ELSE <<>>

\* The guard of the data listeners effect.
DataListening(c) ==
    /\ userId[c] # <<>>
    /\ isAuthReady[c]
    /\ userProfile[c] # <<>>
    /\ userProfile[c][1].name # AnonymousUser

\* The ids of S in ascending order: the order of snapshot.docs, and so of
\* Object.values(items).
RECURSIVE SortedIds(_)
SortedIds(S) ==
    IF S = {} THEN <<>>
    ELSE LET m == CHOOSE x \in S : \A y \in S : StrLeq(x, y)
         IN  <<m>> \o SortedIds(S \ {m})

\* The comparator of myItems.
CompareItems(a, b) ==
    IF a.status = "missing" /\ b.status # "missing" THEN -1
    ELSE IF a.status # "missing" /\ b.status = "missing" THEN 1
    ELSE Seconds(b.createdAt) - Seconds(a.createdAt)

\* Array.prototype.sort is stable: x goes behind every element that does
\* not sort after it.
RECURSIVE InsertSorted(_, _)
InsertSorted(x, s) ==
    IF s = <<>> THEN <<x>>
    ELSE IF CompareItems(s[1], x) <= 0 THEN <<s[1]>> \o InsertSorted(x, Tail(s))
    ELSE <<x>> \o s

RECURSIVE StableSort(_)
StableSort(s) ==
    IF s = <<>> THEN <<>>
    ELSE InsertSorted(s[Len(s)], StableSort(SubSeq(s, 1, Len(s) - 1)))

MyItemsOf(cache, uid) ==
    LET ids == SortedIds({id \in DOMAIN cache : cache[id].ownerId = uid})
    IN  StableSort([i \in 1..Len(ids) |-> cache[ids[i]]])

myItems(c) == MyItemsOf(items[c], userId[c])

\* items[selectedItem?.id] || selectedItem
currentItem(c) ==
    LET key == IF selectedItem[c] = <<>> THEN <<>> ELSE selectedItem[c][1].id
        found == ItemsLookup(items[c], key)
    IN  IF found # <<>> THEN found ELSE selectedItem[c]

\* Ids that addDoc can still generate.
FreeItemIds ==
    ItemIdPool \ (DOMAIN itemsDb \cup
        {t.item[1].id : t \in {u \in UNION {pend[c] : c \in Clients} :
                                  u.kind = "addItem"}})

CanSuspend(c) == Cardinality(pend[c]) < MaxPending

\* -------------------------------------------------------------------- Init

Init ==
    /\ itemsDb = <<>>
    /\ privProfiles = <<>>
    /\ pubProfiles = <<>>
    /\ chatsDb = <<>>
    /\ messagesDb = <<>>
    /\ clock = 0
    /\ userId = [c \in Clients |-> <<>>]
    /\ isAuthReady = [c \in Clients |-> FALSE]
    /\ userProfile = [c \in Clients |-> <<>>]
    /\ users = [c \in Clients |-> <<>>]
    /\ items = [c \in Clients |-> <<>>]
    /\ chats = [c \in Clients |-> <<>>]
    /\ view = [c \in Clients |-> "login"]
    /\ selectedItem = [c \in Clients |-> <<>>]
    /\ selectedUser = [c \in Clients |-> <<>>]
    /\ selectedChat = [c \in Clients |-> <<>>]
    /\ modal = [c \in Clients |-> ModalClosed]
    /\ pend = [c \in Clients |-> {}]
    /\ subs = [c \in Clients |-> EmptyBag]
    /\ scanError = [c \in Clients |-> <<>>]
    /\ scanWaits = [c \in Clients |-> {}]
    /\ msgSeen = [c \in Clients |-> <<>>]

\* ------------------------------------------------------------------ effects

\* A listener registered with onSnapshot: what it listens to, the principal
\* of the session when it was registered, and the chat of a messages query.
Sub(purpose, uid, chat) == [purpose |-> purpose, uid |-> uid, chat |-> chat]

\* The guards of the profile effect and of the messages effect.
ProfileListening(c) == userId[c] # <<>> /\ isAuthReady[c]
MessagesListening(c) == selectedChat[c] # <<>>

\* The dependency lists of the three effects (compared by value; user
\* changes with userId).
ProfileDeps(c) == <<userId[c], isAuthReady[c], view[c]>>
DataDeps(c) == <<userId[c], isAuthReady[c], userProfile[c]>>
MessagesDeps(c) == IF selectedChat[c] = <<>> THEN <<>> ELSE selectedChat[c][1].id

\* What a run of each effect subscribes.
ProfileSubs(c) ==
    IF ProfileListening(c)
    THEN SetToBag({Sub("profile", userId[c], <<>>)}) ELSE EmptyBag
DataSubs(c) ==
    IF DataListening(c)
    THEN SetToBag({Sub(p, userId[c], <<>>) : p \in {"items", "users", "chats"}})
    ELSE EmptyBag
MessagesSubs(c) ==
    IF MessagesListening(c)
    THEN SetToBag({Sub("messages", userId[c], selectedChat[c][1].id)})
    ELSE EmptyBag

\* The subscriptions of session c with one of the purposes.
ByPurpose(c, purposes) ==
    LET S == {x \in BagToSet(subs[c]) : x.purpose \in purposes}
    IN  [x \in S |-> subs[c][x]]

\* The functions the effects return: each calls the unsubscribe functions
\* of the run that returned it.
ProfileCleanup(c) == ByPurpose(c, {"profile"})
DataCleanup(c) == ByPurpose(c, {"items", "users", "chats"})
MessagesCleanup(c) == ByPurpose(c, {"messages"})

\* The unsubscribe calls and the subscriptions of the effects that run
\* after the render of this step: an effect whose dependencies changed
\* runs the cleanup of its last run, then its body.
Cleanups(c) ==
    (IF ProfileDeps(c)' # ProfileDeps(c) THEN ProfileCleanup(c) ELSE EmptyBag)
    (+) (IF DataDeps(c)' # DataDeps(c) THEN DataCleanup(c) ELSE EmptyBag)
    (+) (IF MessagesDeps(c)' # MessagesDeps(c) THEN MessagesCleanup(c)
         ELSE EmptyBag)
Subscribes(c) ==
    (IF ProfileDeps(c)' # ProfileDeps(c) THEN ProfileSubs(c)' ELSE EmptyBag)
    (+) (IF DataDeps(c)' # DataDeps(c) THEN DataSubs(c)' ELSE EmptyBag)
    (+) (IF MessagesDeps(c)' # MessagesDeps(c) THEN MessagesSubs(c)'
         ELSE EmptyBag)

RunEffects(c) ==
    /\ subs' = [subs EXCEPT ![c] = (@ (-) Cleanups(c)) (+) Subscribes(c)]
    \* the query of a new run of the messages effect has delivered nothing
    /\ msgSeen' = [msgSeen EXCEPT ![c] =
                      IF MessagesDeps(c)' # MessagesDeps(c) THEN <<>> ELSE @]

\* ----------------------------------------------------------------- ScanView

\* The ScanView that renderView shows after this step: while the view stays
\* scan it is the same component, with the error state it is given and the
\* submissions that still wait for handleScanResult; a ScanView that is
\* removed loses its state, and a setError of a removed one has no effect.
ScanViewRenders(c, error, waits) ==
    /\ scanError' = [scanError EXCEPT ![c] =
                        IF view'[c] = "scan" THEN error ELSE <<>>]
    /\ scanWaits' = [scanWaits EXCEPT ![c] =
                        IF view'[c] = "scan" THEN waits \cap pend'[c] ELSE {}]

\* A step that calls neither setError nor handleScanResult.
ScanViewKept(c) == ScanViewRenders(c, scanError[c], scanWaits[c])

\* ---------------------------------------------------------- identity session

\* The onAuthStateChanged callback, and the profile effect's reset of
\* userProfile when there is no principal.
AuthStateChanged(c, currentUser) ==
    /\ userId' = [userId EXCEPT ![c] = currentUser]
    /\ view' = [view EXCEPT ![c] = IF currentUser = <<>> THEN "login" ELSE @]
    /\ isAuthReady' = [isAuthReady EXCEPT ![c] = TRUE]
    /\ userProfile' = [userProfile EXCEPT ![c] =
                          IF currentUser = <<>> THEN <<>> ELSE @]

\* Startup: the first report of the identity provider, after handleAuth's
\* sign-in succeeded (a principal) or failed (none).
HandleAuth(c, u) ==
    /\ ~isAuthReady[c]
    /\ AuthStateChanged(c, u)
    /\ UNCHANGED <<storeVars, cacheVars, selVars, modal, pend>>
    /\ RunEffects(c)
    /\ ScanViewKept(c)

HandleGoogleSignIn(c, u) ==
    /\ view[c] = "login"
    /\ isAuthReady[c]
    /\ u # userId[c]
    /\ AuthStateChanged(c, u)
    /\ UNCHANGED <<storeVars, cacheVars, selVars, modal, pend>>
    /\ RunEffects(c)
    /\ ScanViewKept(c)

\* The identity provider reports that the session ended (signed out in
\* another tab, token revoked): the callback runs with no user.
AuthLost(c) ==
    /\ isAuthReady[c]
    /\ userId[c] # <<>>
    /\ AuthStateChanged(c, <<>>)
    /\ UNCHANGED <<storeVars, cacheVars, selVars, modal, pend>>
    /\ RunEffects(c)
    /\ ScanViewKept(c)

\* The dashboard's sign-out button.
HandleLogout(c) ==
    /\ view[c] = "dashboard"
    /\ IF userId[c] # <<>>
       THEN AuthStateChanged(c, <<>>)
       ELSE UNCHANGED <<authVars, view>>
    /\ selectedItem' = [selectedItem EXCEPT ![c] = <<>>]
    /\ selectedUser' = [selectedUser EXCEPT ![c] = <<>>]
    /\ selectedChat' = [selectedChat EXCEPT ![c] = <<>>]
    /\ UNCHANGED <<storeVars, cacheVars, modal, pend>>
    /\ RunEffects(c)
    /\ ScanViewKept(c)

\* The profile listener's callback.
ProfileSnapshot(c) ==
    /\ userId[c] # <<>>
    /\ isAuthReady[c]
    /\ IF userId[c] \in DOMAIN privProfiles
       THEN LET profile == privProfiles[userId[c]]
            IN  /\ userProfile' = [userProfile EXCEPT ![c] = <<profile>>]
                /\ view' = [view EXCEPT ![c] =
                              IF profile.name # AnonymousUser /\ @ = "login"
                              THEN "dashboard" ELSE @]
       ELSE /\ userProfile' = [userProfile EXCEPT ![c] =
                                  <<Profile(userId[c], AnonymousUser)>>]
            /\ view' = [view EXCEPT ![c] = "profile-setup"]
    /\ UNCHANGED <<storeVars, userId, isAuthReady, cacheVars, selVars, modal,
                   pend>>
    /\ RunEffects(c)
    /\ ScanViewKept(c)

\* ------------------------------------------------------------ data listeners

ItemsSnapshotDropped(c) ==
    /\ DataListening(c)
    /\ UNCHANGED vars

\* The items listener's callback.
ItemsSnapshot(c) ==
    /\ DataListening(c)
    /\ items' = [items EXCEPT ![c] = itemsDb]
    /\ UNCHANGED <<storeVars, authVars, users, chats, view, selVars, modal,
                   pend>>
    /\ RunEffects(c)
    /\ ScanViewKept(c)

UsersSnapshot(c) ==
    /\ DataListening(c)
    /\ users' = [users EXCEPT ![c] =
                    Put(pubProfiles, userProfile[c][1].uid, userProfile[c][1])]
    /\ UNCHANGED <<storeVars, authVars, items, chats, view, selVars, modal,
                   pend>>
    /\ RunEffects(c)
    /\ ScanViewKept(c)

ChatsSnapshot(c) ==
    /\ DataListening(c)
    /\ chats' = [chats EXCEPT ![c] =
                    [id \in {k \in DOMAIN chatsDb :
                                \E i \in 1..2 : chatsDb[k].participants[i] = userId[c]}
                        |-> chatsDb[id]]]
    /\ UNCHANGED <<storeVars, authVars, users, items, view, selVars, modal,
                   pend>>
    /\ RunEffects(c)
    /\ ScanViewKept(c)

\* --------------------------------------------------------------- navigation

\* The buttons that only call setView.
NavButtons ==
    {<<"dashboard", "add-item">>, <<"dashboard", "scan">>,
     <<"dashboard", "item-qr">>, <<"add-item", "dashboard">>,
     <<"item-qr", "dashboard">>, <<"scan", "dashboard">>,
     <<"user-profile", "dashboard">>, <<"chat", "user-profile">>}

Navigate(c, to) ==
    /\ <<view[c], to>> \in NavButtons
    \* an entry of the dashboard list is needed to click on it
    /\ (view[c] = "dashboard" /\ to = "item-qr") => myItems(c) # <<>>
    /\ view' = [view EXCEPT ![c] = to]
    /\ UNCHANGED <<storeVars, authVars, cacheVars, selVars, modal, pend>>
    /\ RunEffects(c)
    /\ ScanViewKept(c)

\* ----------------------------------------------------------- suspended tasks

Suspend(c, t) == pend' = [pend EXCEPT ![c] = @ \cup {t}]
Finish(c, t) == pend' = [pend EXCEPT ![c] = @ \ {t}]
Acked(c, t) ==
    pend' = [pend EXCEPT ![c] = (@ \ {t}) \cup {[t EXCEPT !.acked = @ + 1]}]

ErrorNoticeSwallowed(c, title) == modal' = modal

\* The catch of a handler: globalSetModal with a notice.
ErrorNotice(c, title) == modal' = [modal EXCEPT ![c] = Notice(title)]

\* --------------------------------------------------------------- handleAuth

\* handleAuth waits for signInWithCustomToken or signInAnonymously, and
\* the sign-in succeeds: the identity provider reports the principal.
SignInSucceeds(c, t, u) ==
    /\ t \in pend[c] /\ t.kind = "signIn"
    /\ AuthStateChanged(c, u)
    /\ Finish(c, t)
    /\ UNCHANGED <<storeVars, cacheVars, selVars, modal>>
    /\ RunEffects(c)
    /\ ScanViewKept(c)

\* The sign-in fails. In the try block the catch calls signInAnonymously
\* and waits for it; in the catch the rejection ends handleAuth.
SignInFails(c, t) ==
    /\ t \in pend[c] /\ t.kind = "signIn"
    /\ IF t.acked = 0 THEN Acked(c, t) ELSE Finish(c, t)
    /\ UNCHANGED <<storeVars, authVars, cacheVars, view, selVars, modal>>
    /\ RunEffects(c)
    /\ ScanViewKept(c)

\* ------------------------------------------------------- handleProfileSetup

HandleProfileSetup(c, name) ==
    /\ view[c] = "profile-setup"
    /\ userId[c] # <<>>
    /\ CanSuspend(c)
    /\ Suspend(c, Task("profileSetup", userId[c], <<>>, <<>>, name))
    /\ UNCHANGED <<storeVars, authVars, cacheVars, view, selVars, modal>>
    /\ RunEffects(c)
    /\ ScanViewKept(c)

\* setDoc(getUserDocRef(userId), profileData, { merge: true }) is committed
\* and acknowledged; the second setDoc is issued
ResolvePrivateProfile(c, t) ==
    /\ t \in pend[c] /\ t.kind = "profileSetup" /\ t.acked = 0
    /\ privProfiles' = Put(privProfiles, t.uid, Profile(t.uid, t.name))
    /\ Acked(c, t)
    /\ UNCHANGED messagesDb
    /\ UNCHANGED <<itemsDb, pubProfiles, chatsDb, clock, authVars, cacheVars,
                   view, selVars, modal>>
    /\ RunEffects(c)
    /\ ScanViewKept(c)

\* setDoc(doc(user_profiles, userId), {...}, { merge: true }) is committed
\* and acknowledged
ResolveProfileSetup(c, t) ==
    /\ t \in pend[c] /\ t.kind = "profileSetup" /\ t.acked = 1
    /\ pubProfiles' = Put(pubProfiles, t.uid, Profile(t.uid, t.name))
    /\ view' = [view EXCEPT ![c] = "dashboard"]
    /\ Finish(c, t)
    /\ UNCHANGED messagesDb
    /\ UNCHANGED <<itemsDb, privProfiles, chatsDb, clock, authVars, cacheVars,
                   selVars, modal>>
    /\ RunEffects(c)
    /\ ScanViewKept(c)

FailProfileSetup(c, t) ==
    /\ t \in pend[c] /\ t.kind = "profileSetup"
    /\ ErrorNotice(c, "Error")
    /\ Finish(c, t)
    /\ UNCHANGED <<storeVars, authVars, cacheVars, view, selVars>>
    /\ RunEffects(c)
    /\ ScanViewKept(c)

\* ------------------------------------------------------------ handleAddItem

HandleAddItem(c, id) ==
    /\ view[c] = "add-item"
    /\ userId[c] # <<>>
    /\ CanSuspend(c)
    /\ FreeItemIds # {}
    /\ id = SortedIds(FreeItemIds)[1]
    /\ Suspend(c, Task("addItem", userId[c],
                       <<Item(id, userId[c], "missing", <<>>)>>, <<>>, ""))
    /\ UNCHANGED <<storeVars, authVars, cacheVars, view, selVars, modal>>
    /\ RunEffects(c)
    /\ ScanViewKept(c)

\* The document as the store keeps it: createdAt is the server's time.
NewItemDoc(t, tick) ==
    Item(t.item[1].id, t.item[1].ownerId, t.item[1].status, <<Timestamp(tick)>>)

ResolveAddItem(c, t) ==
    /\ t \in pend[c] /\ t.kind = "addItem"
    /\ clock' = clock + 1
    /\ itemsDb' = Put(itemsDb, t.item[1].id, NewItemDoc(t, clock'))
    /\ selectedItem' = [selectedItem EXCEPT ![c] = t.item]
    /\ view' = [view EXCEPT ![c] = "item-qr"]
    /\ Finish(c, t)
    /\ UNCHANGED messagesDb
    /\ UNCHANGED <<privProfiles, pubProfiles, chatsDb, authVars, cacheVars,
                   selectedUser, selectedChat, modal>>
    /\ RunEffects(c)
    /\ ScanViewKept(c)

FailAddItem(c, t) ==
    /\ t \in pend[c] /\ t.kind = "addItem"
    /\ ErrorNotice(c, "Error")
    /\ Finish(c, t)
    /\ UNCHANGED <<storeVars, authVars, cacheVars, view, selVars>>
    /\ RunEffects(c)
    /\ ScanViewKept(c)

\* --------------------------------------------------------- handleScanResult

OutcomeWithoutUser(result, message, item, user, toView) ==
    [result |-> result, message |-> message, item |-> item, user |-> <<>>,
     view |-> toView]

\* How a run of handleScanResult ends: how its promise settles, and what it
\* passes to setSelectedItem, setSelectedUser and setView.
Outcome(result, message, item, user, toView) ==
    [result |-> result, message |-> message, item |-> item, user |-> user,
     view |-> toView]

\* handleScanResult(itemId) up to its await: how the promise settles
\* ("rejected" with a message, "resolved" with the item) or that it waits
\* for the point read ("pending"), and what it selects and shows.
handleScanResult(c, itemId) ==
    IF userId[c] = <<>>
    THEN Outcome("rejected", MsgNotInitialized, <<>>, <<>>, "")
    ELSE LET item == ItemsLookup(items[c], itemId)
         IN  IF item = <<>>
             THEN Outcome("rejected", MsgNoItem(itemId), <<>>, <<>>, "")
             ELSE IF item[1].ownerId = userId[c]
             THEN Outcome("rejected", MsgOwnItem, item, <<>>, "item-qr")
             ELSE LET ownerProfile == UsersLookup(users[c], item[1].ownerId)
                  IN  IF ownerProfile # <<>>
                      THEN Outcome("resolved", <<>>, item, ownerProfile,
                                   "user-profile")
                      \* no owner id to read: fetchProfileByUid returns null
                      ELSE IF item[1].ownerId = <<>>
                      THEN Outcome("rejected", MsgNoOwner, <<>>, <<>>, "")
                      ELSE Outcome("pending", <<>>, item, <<>>, "")

\* ScanView.handleSubmit on the text of the input field.
SubmitUntrimmed(raw) == raw

SubmittedId(raw) == Trim(raw)

HandleSubmit(c, raw) ==
    /\ view[c] = "scan"
    /\ Trim(raw) # <<>>
    /\ UNCHANGED <<storeVars, authVars, cacheVars, selectedChat, modal>>
    /\ LET itemId == SubmittedId(raw)
           o == handleScanResult(c, itemId)
       IN  /\ o.result = "pending" => CanSuspend(c)
           /\ pend' = [pend EXCEPT ![c] =
                          IF o.result = "pending"
                          THEN @ \cup {Task("fetch", <<>>, o.item, <<>>, "")}
                          ELSE @]
           /\ selectedItem' = [selectedItem EXCEPT ![c] =
                                  IF o.view # "" THEN o.item ELSE @]
           /\ selectedUser' = [selectedUser EXCEPT ![c] =
                                  IF o.user # <<>> THEN o.user ELSE @]
           /\ view' = [view EXCEPT ![c] = IF o.view # "" THEN o.view ELSE @]
           \* setError(null), then the catch of a rejected promise
           /\ ScanViewRenders(c,
                 IF o.result = "rejected" THEN o.message ELSE <<>>,
                 scanWaits[c] \cup (pend'[c] \ pend[c]))
    /\ RunEffects(c)

\* What getDoc(getUserDocRef(uid)) gives: a snapshot of the document the
\* store holds (exists() is false without one), or an error.
GetDoc(uid) ==
    [ok |-> TRUE,
     doc |-> IF uid \in DOMAIN privProfiles THEN <<privProfiles[uid]>> ELSE <<>>]
GetDocNotFound == [ok |-> TRUE, doc |-> <<>>]
GetDocFails == [ok |-> FALSE, doc |-> <<>>]

\* fetchProfileByUid after its await: the data of a document that exists,
\* null without one, and null from the catch of a failed read.
fetchProfileByUid(read) ==
    IF read.ok
    THEN IF read.doc # <<>> THEN read.doc ELSE <<>>
    ELSE <<>>

AfterFetchUnchecked(item, ownerProfile) ==
    Outcome("resolved", <<>>, item, ownerProfile, "user-profile")

\* handleScanResult after its await, with what fetchProfileByUid returned.
AfterFetch(item, ownerProfile) ==
    IF ownerProfile = <<>>
    THEN Outcome("rejected", MsgNoOwner, <<>>, <<>>, "")
    ELSE Outcome("resolved", <<>>, item, ownerProfile, "user-profile")

\* The point read of a waiting handleScanResult settles, and the handler
\* runs to its end.
Fetched(c, t, read) ==
    /\ t \in pend[c] /\ t.kind = "fetch"
    /\ LET o == AfterFetch(t.item, fetchProfileByUid(read))
       IN  /\ selectedItem' = [selectedItem EXCEPT ![c] =
                                  IF o.result = "resolved" THEN o.item ELSE @]
           /\ selectedUser' = [selectedUser EXCEPT ![c] =
                                  IF o.result = "resolved" THEN o.user ELSE @]
           /\ view' = [view EXCEPT ![c] = IF o.view # "" THEN o.view ELSE @]
           /\ Finish(c, t)
           \* the catch of the ScanView that submitted, if it is still shown
           /\ ScanViewRenders(c,
                 IF o.result = "rejected" /\ t \in scanWaits[c]
                 THEN o.message ELSE scanError[c],
                 scanWaits[c])
    /\ UNCHANGED <<storeVars, authVars, cacheVars, selectedChat, modal>>
    /\ RunEffects(c)

\* The point read returns what the store holds.
ResolveFetch(c, t) ==
    /\ t \in pend[c] /\ t.kind = "fetch"
    /\ Fetched(c, t, GetDoc(t.item[1].ownerId))

\* The point read fails.
FailFetch(c, t) == Fetched(c, t, GetDocFails)

\* ------------------------------------------------------------ UserProfileView

\* renderView shows UserProfileView, and it shows the finder's buttons.
FinderButtons(c) ==
    /\ view[c] = "user-profile"
    /\ selectedUser[c] # <<>>
    /\ currentItem(c) # <<>>
    /\ currentItem(c)[1].ownerId # userId[c]

IsReturned(c) == currentItem(c)[1].status = "returned"

\* ---------------------------------------------------------- handleStartChat

HandleStartChat(c) ==
    /\ FinderButtons(c)
    /\ ~IsReturned(c)
    /\ selectedItem[c] # <<>> /\ userId[c] # <<>>
    /\ CanSuspend(c)
    /\ LET otherUserId == selectedItem[c][1].ownerId
           chatId == getChatDocId(userId[c], otherUserId)
           chat == IF chatId \in DOMAIN chats[c] THEN chats[c][chatId]
                   ELSE WithMessages(
                            Chat(chatId, <<userId[c], otherUserId>>, <<>>), <<>>)
       IN  Suspend(c, Task("startChat", userId[c],
                           <<Captured(selectedItem[c][1])>>, <<chat>>, ""))
    /\ UNCHANGED <<storeVars, authVars, cacheVars, view, selVars, modal>>
    /\ RunEffects(c)
    /\ ScanViewKept(c)

\* The fields setDoc(chatDocRef, {...}, { merge: true }) writes.
ChatDoc(t) ==
    Chat(getChatDocId(t.uid, t.item[1].ownerId),
         SortPair(t.uid, t.item[1].ownerId), t.item[1].id)

ResolveStartChat(c, t) ==
    /\ t \in pend[c] /\ t.kind = "startChat"
    /\ chatsDb' = Put(chatsDb, ChatDoc(t).id, ChatDoc(t))
    /\ selectedChat' = [selectedChat EXCEPT ![c] = t.chat]
    /\ view' = [view EXCEPT ![c] = "chat"]
    /\ Finish(c, t)
    /\ UNCHANGED messagesDb
    /\ UNCHANGED <<itemsDb, privProfiles, pubProfiles, clock, authVars,
                   cacheVars, selectedItem, selectedUser, modal>>
    /\ RunEffects(c)
    /\ ScanViewKept(c)

FailStartChat(c, t) ==
    /\ t \in pend[c] /\ t.kind = "startChat"
    /\ ErrorNotice(c, "Chat Error")
    /\ Finish(c, t)
    /\ UNCHANGED <<storeVars, authVars, cacheVars, view, selVars>>
    /\ RunEffects(c)
    /\ ScanViewKept(c)

\* ------------------------------------------------------- handleMarkReturned

HandleMarkReturnedUngated(c) ==
    /\ FinderButtons(c)
    /\ ~IsReturned(c)
    /\ selectedItem[c] # <<>>
    /\ CanSuspend(c)
    /\ Suspend(c, Task("markReturned", <<>>,
                       <<Captured(selectedItem[c][1])>>, <<>>, ""))
    /\ UNCHANGED <<storeVars, authVars, cacheVars, view, selVars, modal>>
    /\ RunEffects(c)
    /\ ScanViewKept(c)

\* handleMarkReturned: opens the modal that asks to confirm.
HandleMarkReturned(c) ==
    /\ FinderButtons(c)
    /\ ~IsReturned(c)
    /\ selectedItem[c] # <<>>
    /\ modal' = [modal EXCEPT ![c] =
                  ConfirmReturn(Captured(selectedItem[c][1]))]
    /\ UNCHANGED <<storeVars, authVars, cacheVars, view, selVars, pend>>
    /\ RunEffects(c)
    /\ ScanViewKept(c)

\* The modal's Confirm button while it asks to confirm the return.
ModalConfirm(c) ==
    /\ modal[c].isOpen /\ modal[c].item # <<>>
    /\ CanSuspend(c)
    /\ modal' = [modal EXCEPT ![c] = ModalClosed]
    /\ Suspend(c, Task("markReturned", <<>>, modal[c].item, <<>>, ""))
    /\ UNCHANGED <<storeVars, authVars, cacheVars, view, selVars>>
    /\ RunEffects(c)
    /\ ScanViewKept(c)

\* The modal's Cancel button (shown only with onCancel).
ModalCancel(c) ==
    /\ modal[c].isOpen /\ modal[c].item # <<>>
    /\ modal' = [modal EXCEPT ![c] = ModalClosed]
    /\ UNCHANGED <<storeVars, authVars, cacheVars, view, selVars, pend>>
    /\ RunEffects(c)
    /\ ScanViewKept(c)

\* The OK button of a notice.
ModalOk(c) ==
    /\ modal[c].isOpen /\ modal[c].item = <<>>
    /\ modal' = [modal EXCEPT ![c] = ModalClosed]
    /\ UNCHANGED <<storeVars, authVars, cacheVars, view, selVars, pend>>
    /\ RunEffects(c)
    /\ ScanViewKept(c)

SetStatusToggled(db, id) ==
    IF id \in DOMAIN db
    THEN [db EXCEPT ![id].status = IF @ = "returned" THEN "missing" ELSE "returned"]
    ELSE Put(db, id, Item(id, <<>>, "returned", <<>>))

\* setDoc(doc(items, selectedItem.id), { status: 'returned' }, { merge: true })
SetStatusReturned(db, id) ==
    IF id \in DOMAIN db
    THEN [db EXCEPT ![id].status = "returned"]
    ELSE Put(db, id, Item(id, <<>>, "returned", <<>>))

\* the write is committed and acknowledged, then
\* setSelectedItem(prev => ({ ...prev, status: 'returned' }))
ResolveMarkReturned(c, t) ==
    /\ t \in pend[c] /\ t.kind = "markReturned"
    /\ itemsDb' = SetStatusReturned(itemsDb, t.item[1].id)
    /\ selectedItem' = [selectedItem EXCEPT ![c] =
          IF @ = <<>> THEN <<Item(<<>>, <<>>, "returned", <<>>)>>
          ELSE <<[@[1] EXCEPT !.status = "returned"]>>]
    /\ modal' = [modal EXCEPT ![c] = Notice("Success")]
    /\ Finish(c, t)
    /\ UNCHANGED messagesDb
    /\ UNCHANGED <<privProfiles, pubProfiles, chatsDb, clock, authVars,
                   cacheVars, view, selectedUser, selectedChat>>
    /\ RunEffects(c)
    /\ ScanViewKept(c)

FailMarkReturned(c, t) ==
    /\ t \in pend[c] /\ t.kind = "markReturned"
    /\ ErrorNotice(c, "Error")
    /\ Finish(c, t)
    /\ UNCHANGED <<storeVars, authVars, cacheVars, view, selVars>>
    /\ RunEffects(c)
    /\ ScanViewKept(c)

\* ----------------------------------------------------------- chat messages

\* The texts ChatView.handleSend passes on: trimmed and not empty.
MessageTexts == {"m1", "m2"}

\* The documents of the messages subcollection of a chat, as they were added.
MessagesOf(db, chatId) == IF chatId \in DOMAIN db THEN db[chatId] ELSE <<>>

AllMessages ==
    UNION {{messagesDb[k][i] : i \in 1..Len(messagesDb[k])} : k \in DOMAIN messagesDb}

\* Sends that have not added their message yet.
PendingSends ==
    {t \in UNION {pend[c] : c \in Clients} : t.kind = "sendMessage" /\ t.acked = 0}

CanSend == Cardinality(AllMessages) + Cardinality(PendingSends) < MaxMessages

\* The timestamp a is before b.
Before(a, b) ==
    \/ a.seconds < b.seconds
    \/ a.seconds = b.seconds /\ a.nanoseconds < b.nanoseconds

\* orderBy('timestamp', 'asc'): documents with equal timestamps are in the
\* order of their ids.
RECURSIVE InsertByTimestamp(_, _)
InsertByTimestamp(m, s) ==
    IF s = <<>> THEN <<m>>
    ELSE IF \/ Before(s[1].timestamp, m.timestamp)
            \/ s[1].timestamp = m.timestamp /\ s[1].id <= m.id
    THEN <<s[1]>> \o InsertByTimestamp(m, Tail(s))
    ELSE <<m>> \o s

RECURSIVE OrderByTimestamp(_)
OrderByTimestamp(s) ==
    IF s = <<>> THEN <<>>
    ELSE InsertByTimestamp(s[Len(s)], OrderByTimestamp(SubSeq(s, 1, Len(s) - 1)))

\* addDoc(collection(chatDocRef, 'messages'), {...}) as the store keeps it:
\* a new id, and the server's time.
AddMessage(db, chatId, senderId, text, tick) ==
    Put(db, chatId,
        MessagesOf(db, chatId)
            \o <<Message(Cardinality(AllMessages) + 1, senderId, text,
                          Timestamp(tick))>>)

\* ChatView.handleSend with a text that is not blank, and handleSendMessage
\* up to its first await; doc() throws without a chat id.
HandleSend(c, text) ==
    /\ view[c] = "chat"
    /\ selectedChat[c] # <<>> /\ selectedUser[c] # <<>>
    /\ userId[c] # <<>>
    /\ CanSuspend(c)
    /\ CanSend
    /\ IF selectedChat[c][1].id = <<>>
       THEN ErrorNotice(c, "Error") /\ UNCHANGED pend
       ELSE /\ Suspend(c, Task("sendMessage", userId[c], <<>>,
                               <<Chat(selectedChat[c][1].id, <<>>, <<>>)>>, text))
            /\ UNCHANGED modal
    /\ UNCHANGED <<storeVars, authVars, cacheVars, view, selVars>>
    /\ RunEffects(c)
    /\ ScanViewKept(c)

\* addDoc is committed and acknowledged; the setDoc of lastMessageAt is
\* issued.
ResolveAddMessage(c, t) ==
    /\ t \in pend[c] /\ t.kind = "sendMessage" /\ t.acked = 0
    /\ clock' = clock + 1
    /\ messagesDb' = AddMessage(messagesDb, t.chat[1].id, t.uid, t.name, clock')
    /\ Acked(c, t)
    /\ UNCHANGED <<itemsDb, privProfiles, pubProfiles, chatsDb, authVars,
                   cacheVars, view, selVars, modal>>
    /\ RunEffects(c)
    /\ ScanViewKept(c)

\* setDoc(chatDocRef, { lastMessageAt }, { merge: true }) is committed and
\* acknowledged.
ResolveSendMessage(c, t) ==
    /\ t \in pend[c] /\ t.kind = "sendMessage" /\ t.acked = 1
    /\ chatsDb' = IF t.chat[1].id \in DOMAIN chatsDb THEN chatsDb
                  ELSE Put(chatsDb, t.chat[1].id, Chat(t.chat[1].id, <<>>, <<>>))
    /\ Finish(c, t)
    /\ UNCHANGED <<itemsDb, privProfiles, pubProfiles, messagesDb, clock,
                   authVars, cacheVars, view, selVars, modal>>
    /\ RunEffects(c)
    /\ ScanViewKept(c)

FailSendMessage(c, t) ==
    /\ t \in pend[c] /\ t.kind = "sendMessage"
    /\ ErrorNotice(c, "Error")
    /\ Finish(c, t)
    /\ UNCHANGED <<storeVars, authVars, cacheVars, view, selVars>>
    /\ RunEffects(c)
    /\ ScanViewKept(c)

\* The callback of the messages listener, with the first result of its
\* query and with every result that differs from the last one:
\* setSelectedChat(prev => ({ ...prev, messages: msgs })).
MessagesSnapshot(c) ==
    /\ \E x \in BagToSet(MessagesCleanup(c)) :
          LET msgs == OrderByTimestamp(MessagesOf(messagesDb, x.chat))
          IN  /\ msgSeen[c] # <<msgs>>
              /\ msgSeen' = [msgSeen EXCEPT ![c] = <<msgs>>]
              /\ selectedChat' = [selectedChat EXCEPT ![c] =
                    IF @ = <<>> THEN <<WithMessages(Chat(<<>>, <<>>, <<>>), msgs)>>
                    ELSE <<WithMessages(@[1], msgs)>>]
    /\ UNCHANGED <<storeVars, authVars, cacheVars, view, selectedItem,
                   selectedUser, modal, pend, subs>>
    /\ ScanViewKept(c)

\* ---------------------------------------------------------- other sessions

\* The sessions of the other users (and other tabs of the same user) are
\* not modelled view by view: what reaches this session is the writes
\* their handlers commit to the shared store.

\* handleProfileSetup's first setDoc, by u
OtherSavesPrivateProfile(u, name) ==
    /\ u \notin DOMAIN privProfiles
    /\ privProfiles' = Put(privProfiles, u, Profile(u, name))
    /\ UNCHANGED messagesDb
    /\ UNCHANGED <<itemsDb, pubProfiles, chatsDb, clock, authVars, cacheVars,
                   view, selVars, modal, pend>>
    /\ UNCHANGED <<subs, scanError, scanWaits, msgSeen>>

\* handleProfileSetup's second setDoc, by u
OtherSavesPublicProfile(u) ==
    /\ u \in DOMAIN privProfiles
    /\ u \notin DOMAIN pubProfiles
    /\ pubProfiles' = Put(pubProfiles, u, privProfiles[u])
    /\ UNCHANGED messagesDb
    /\ UNCHANGED <<itemsDb, privProfiles, chatsDb, clock, authVars, cacheVars,
                   view, selVars, modal, pend>>
    /\ UNCHANGED <<subs, scanError, scanWaits, msgSeen>>

\* handleAddItem's addDoc, by u
OtherAddsItem(u, id) ==
    /\ FreeItemIds # {}
    /\ id = SortedIds(FreeItemIds)[1]
    /\ clock' = clock + 1
    /\ itemsDb' = Put(itemsDb, id, Item(id, u, "missing", <<Timestamp(clock')>>))
    /\ UNCHANGED messagesDb
    /\ UNCHANGED <<privProfiles, pubProfiles, chatsDb, authVars, cacheVars,
                   view, selVars, modal, pend>>
    /\ UNCHANGED <<subs, scanError, scanWaits, msgSeen>>

\* handleStartChat's setDoc, by a finder u of the item id
OtherStartsChat(u, id) ==
    /\ id \in DOMAIN itemsDb
    /\ itemsDb[id].ownerId # u
    /\ LET t == Task("startChat", u, <<itemsDb[id]>>, <<>>, "")
       IN  chatsDb' = Put(chatsDb, ChatDoc(t).id, ChatDoc(t))
    /\ UNCHANGED messagesDb
    /\ UNCHANGED <<itemsDb, privProfiles, pubProfiles, clock, authVars,
                   cacheVars, view, selVars, modal, pend>>
    /\ UNCHANGED <<subs, scanError, scanWaits, msgSeen>>

\* handleSendMessage's addDoc, by a participant u of the chat chatId
OtherSendsMessage(u, chatId, text) ==
    /\ chatId \in DOMAIN chatsDb
    /\ \E i \in 1..Len(chatsDb[chatId].participants) :
          chatsDb[chatId].participants[i] = u
    /\ CanSend
    /\ clock' = clock + 1
    /\ messagesDb' = AddMessage(messagesDb, chatId, u, text, clock')
    /\ UNCHANGED <<itemsDb, privProfiles, pubProfiles, chatsDb, authVars,
                   cacheVars, view, selVars, modal, pend>>
    /\ UNCHANGED <<subs, scanError, scanWaits, msgSeen>>

\* the confirmed handleMarkReturned's setDoc, by a finder of the item id
OtherMarksReturned(id) ==
    /\ id \in DOMAIN itemsDb
    /\ itemsDb' = SetStatusReturned(itemsDb, id)
    /\ UNCHANGED messagesDb
    /\ UNCHANGED <<privProfiles, pubProfiles, chatsDb, clock, authVars,
                   cacheVars, view, selVars, modal, pend>>
    /\ UNCHANGED <<subs, scanError, scanWaits, msgSeen>>

\* ------------------------------------------------------------ specification

\* What a user can type into the scan field.
ScanIds == ItemIdPool \cup {UnknownId, ProtoKey}
RawInputs ==
    ScanIds \cup {Space \o id : id \in ItemIdPool} \cup {id \o Space : id \in ItemIdPool}
        \cup {<<9>> \o UnknownId \o <<10>>, Space}

\* The texts session c can submit: ScanView is shown at the scan view only.
Submittable(c) == IF view[c] = "scan" THEN RawInputs ELSE {}

\* handleProfileSetup, from the form to the second acknowledgement.
ProfileSetupSteps(c) ==
    \/ \E name \in FormNames : HandleProfileSetup(c, name)
    \/ \E t \in pend[c] : ResolvePrivateProfile(c, t)
    \/ \E t \in pend[c] : ResolveProfileSetup(c, t)
    \/ \E t \in pend[c] : FailProfileSetup(c, t)

\* Everything else one App component does.
SessionSteps(c) ==
    \/ \E u \in Accounts \cup {<<>>} : HandleAuth(c, u)
    \/ \E u \in Accounts : HandleGoogleSignIn(c, u)
    \/ AuthLost(c)
    \/ HandleLogout(c)
    \/ ProfileSnapshot(c)
    \/ ItemsSnapshot(c)
    \/ UsersSnapshot(c)
    \/ ChatsSnapshot(c)
    \/ \E to \in Views : Navigate(c, to)
    \/ \E id \in ItemIdPool : HandleAddItem(c, id)
    \/ \E raw \in RawInputs : HandleSubmit(c, raw)
    \/ HandleStartChat(c)
    \/ HandleMarkReturned(c)
    \/ ModalConfirm(c)
    \/ ModalCancel(c)
    \/ ModalOk(c)
    \/ \E t \in pend[c] : ResolveAddItem(c, t)
    \/ \E t \in pend[c] : FailAddItem(c, t)
    \/ \E t \in pend[c] : ResolveFetch(c, t)
    \/ \E t \in pend[c] : FailFetch(c, t)
    \/ \E t \in pend[c] : ResolveStartChat(c, t)
    \/ \E t \in pend[c] : FailStartChat(c, t)
    \/ \E t \in pend[c] : ResolveMarkReturned(c, t)
    \/ \E t \in pend[c] : FailMarkReturned(c, t)

OtherProfileSetups ==
    \/ \E u \in Others, name \in ProfileNames :
          OtherSavesPrivateProfile(u, name)
    \/ \E u \in Others : OtherSavesPublicProfile(u)

OtherItemSteps ==
    \/ \E u \in Others, id \in ItemIdPool : OtherAddsItem(u, id)
    \/ \E u \in Others, id \in DOMAIN itemsDb : OtherStartsChat(u, id)
    \/ \E id \in DOMAIN itemsDb : OtherMarksReturned(id)

Next ==
    \/ \E c \in Clients : ProfileSetupSteps(c)
    \/ \E c \in Clients : SessionSteps(c)
    \/ OtherProfileSetups
    \/ OtherItemSteps

Spec == Init /\ [][Next]_vars

\* Store notifications are delivered: a profile or items listener that has
\* a snapshot to deliver eventually runs its callback.
FairSpec ==
    Spec /\ \A c \in Clients :
                WF_vars(ProfileSnapshot(c)) /\ WF_vars(ItemsSnapshot(c))

\* An item that UidA registered in an earlier session: "w".
EarlierItemId == <<119>>

\* Both users have completed their profiles, and the store holds the item
\* of the earlier session.
InitPair ==
    /\ itemsDb = Put(<<>>, EarlierItemId,
                     Item(EarlierItemId, UidA, "missing", <<Timestamp(0)>>))
    /\ privProfiles = [u \in Principals |-> Profile(u, "Alice")]
    /\ pubProfiles = [u \in Principals |-> Profile(u, "Alice")]
    /\ chatsDb = <<>>
    /\ messagesDb = <<>>
    /\ clock = 0
    /\ userId = [c \in Clients |-> <<>>]
    /\ isAuthReady = [c \in Clients |-> FALSE]
    /\ userProfile = [c \in Clients |-> <<>>]
    /\ users = [c \in Clients |-> <<>>]
    /\ items = [c \in Clients |-> <<>>]
    /\ chats = [c \in Clients |-> <<>>]
    /\ view = [c \in Clients |-> "login"]
    /\ selectedItem = [c \in Clients |-> <<>>]
    /\ selectedUser = [c \in Clients |-> <<>>]
    /\ selectedChat = [c \in Clients |-> <<>>]
    /\ modal = [c \in Clients |-> ModalClosed]
    /\ pend = [c \in Clients |-> {}]
    /\ subs = [c \in Clients |-> EmptyBag]
    /\ scanError = [c \in Clients |-> <<>>]
    /\ scanWaits = [c \in Clients |-> {}]
    /\ msgSeen = [c \in Clients |-> <<>>]

\* The steps of users whose profiles are complete: no profile is set up.
NextPair ==
    \/ \E c \in Clients : SessionSteps(c)
    \/ OtherItemSteps

SpecPair == InitPair /\ [][NextPair]_vars

\* The App component right after it is mounted: the auth effect has
\* registered onAuthStateChanged and called handleAuth, which waits for its
\* first sign-in.
InitStartup ==
    /\ itemsDb = <<>>
    /\ privProfiles = <<>>
    /\ pubProfiles = <<>>
    /\ chatsDb = <<>>
    /\ messagesDb = <<>>
    /\ clock = 0
    /\ userId = [c \in Clients |-> <<>>]
    /\ isAuthReady = [c \in Clients |-> FALSE]
    /\ userProfile = [c \in Clients |-> <<>>]
    /\ users = [c \in Clients |-> <<>>]
    /\ items = [c \in Clients |-> <<>>]
    /\ chats = [c \in Clients |-> <<>>]
    /\ view = [c \in Clients |-> "login"]
    /\ selectedItem = [c \in Clients |-> <<>>]
    /\ selectedUser = [c \in Clients |-> <<>>]
    /\ selectedChat = [c \in Clients |-> <<>>]
    /\ modal = [c \in Clients |-> ModalClosed]
    /\ pend = [c \in Clients |-> {Task("signIn", <<>>, <<>>, <<>>, "")}]
    /\ subs = [c \in Clients |-> EmptyBag]
    /\ scanError = [c \in Clients |-> <<>>]
    /\ scanWaits = [c \in Clients |-> {}]
    /\ msgSeen = [c \in Clients |-> <<>>]

SignInSteps(c) ==
    \/ \E t \in pend[c], u \in Accounts : SignInSucceeds(c, t, u)
    \/ \E t \in pend[c] : SignInFails(c, t)

NextStartup ==
    \/ \E c \in Clients : SignInSteps(c)
    \/ Next

SpecStartup == InitStartup /\ [][NextStartup]_vars

\* Both users have completed their profiles, and the store holds an item
\* that UidB registered.
InitChat ==
    /\ itemsDb = Put(<<>>, SortedIds(ItemIdPool)[1],
                     Item(SortedIds(ItemIdPool)[1], UidB, "missing",
                          <<Timestamp(0)>>))
    /\ privProfiles = [u \in Principals |-> Profile(u, "Alice")]
    /\ pubProfiles = [u \in Principals |-> Profile(u, "Alice")]
    /\ chatsDb = <<>>
    /\ messagesDb = <<>>
    /\ clock = 0
    /\ userId = [c \in Clients |-> <<>>]
    /\ isAuthReady = [c \in Clients |-> FALSE]
    /\ userProfile = [c \in Clients |-> <<>>]
    /\ users = [c \in Clients |-> <<>>]
    /\ items = [c \in Clients |-> <<>>]
    /\ chats = [c \in Clients |-> <<>>]
    /\ view = [c \in Clients |-> "login"]
    /\ selectedItem = [c \in Clients |-> <<>>]
    /\ selectedUser = [c \in Clients |-> <<>>]
    /\ selectedChat = [c \in Clients |-> <<>>]
    /\ modal = [c \in Clients |-> ModalClosed]
    /\ pend = [c \in Clients |-> {}]
    /\ subs = [c \in Clients |-> EmptyBag]
    /\ scanError = [c \in Clients |-> <<>>]
    /\ scanWaits = [c \in Clients |-> {}]
    /\ msgSeen = [c \in Clients |-> <<>>]

\* A finder on the way to a chat with the owner, and in it.
ChatSteps(c) ==
    \/ \E u \in Accounts : HandleAuth(c, u)
    \/ ProfileSnapshot(c)
    \/ ItemsSnapshot(c)
    \/ UsersSnapshot(c)
    \/ ChatsSnapshot(c)
    \/ \E to \in Views : Navigate(c, to)
    \/ \E raw \in ItemIdPool : HandleSubmit(c, raw)
    \/ \E t \in pend[c] : ResolveFetch(c, t)
    \/ HandleStartChat(c)
    \/ \E t \in pend[c] : ResolveStartChat(c, t)
    \/ \E text \in MessageTexts : HandleSend(c, text)
    \/ \E t \in pend[c] : ResolveAddMessage(c, t)
    \/ \E t \in pend[c] : ResolveSendMessage(c, t)
    \/ \E t \in pend[c] : FailSendMessage(c, t)
    \/ ModalOk(c)
    \/ MessagesSnapshot(c)

NextChat ==
    \/ \E c \in Clients : ChatSteps(c)
    \/ \E u \in Others, chatId \in DOMAIN chatsDb, text \in MessageTexts :
          OtherSendsMessage(u, chatId, text)

SpecChat == InitChat /\ [][NextChat]_vars

\* Principal identifiers that contain the separator of getChatDocId:
\* "_", "__", "_a" and "a".
UidPool == {<<95>>, <<95, 95>>, <<95, 97>>, <<97>>}

\* The id of the item that the principal u registered ("x" and the uid).
ItemOf(u) == <<120>> \o u

\* Every principal of UidPool has registered one item; no session of this
\* browser is signed in.
InitUids ==
    /\ itemsDb = [id \in {ItemOf(u) : u \in UidPool} |->
                     Item(id, Tail(id), "missing", <<Timestamp(0)>>)]
    /\ privProfiles = <<>>
    /\ pubProfiles = <<>>
    /\ chatsDb = <<>>
    /\ messagesDb = <<>>
    /\ clock = 0
    /\ userId = [c \in Clients |-> <<>>]
    /\ isAuthReady = [c \in Clients |-> FALSE]
    /\ userProfile = [c \in Clients |-> <<>>]
    /\ users = [c \in Clients |-> <<>>]
    /\ items = [c \in Clients |-> <<>>]
    /\ chats = [c \in Clients |-> <<>>]
    /\ view = [c \in Clients |-> "login"]
    /\ selectedItem = [c \in Clients |-> <<>>]
    /\ selectedUser = [c \in Clients |-> <<>>]
    /\ selectedChat = [c \in Clients |-> <<>>]
    /\ modal = [c \in Clients |-> ModalClosed]
    /\ pend = [c \in Clients |-> {}]
    /\ subs = [c \in Clients |-> EmptyBag]
    /\ scanError = [c \in Clients |-> <<>>]
    /\ scanWaits = [c \in Clients |-> {}]
    /\ msgSeen = [c \in Clients |-> <<>>]

\* Any principal contacts the owner of any item that is not their own.
NextUids == \E u \in UidPool, id \in DOMAIN itemsDb : OtherStartsChat(u, id)

SpecUids == InitUids /\ [][NextUids]_vars

\* "c": a second account that can sign in to the modelled session
UidC == <<99>>
SwitchAccounts == {UidA, UidC}

\* UidA, UidB and UidC have completed their profiles, and the store holds an
\* item that UidB registered.
InitSwitch ==
    /\ itemsDb = Put(<<>>, SortedIds(ItemIdPool)[1],
                     Item(SortedIds(ItemIdPool)[1], UidB, "missing",
                          <<Timestamp(0)>>))
    /\ privProfiles = [u \in Principals \cup {UidC} |-> Profile(u, "Alice")]
    /\ pubProfiles = [u \in Principals \cup {UidC} |-> Profile(u, "Alice")]
    /\ chatsDb = <<>>
    /\ messagesDb = <<>>
    /\ clock = 0
    /\ userId = [c \in Clients |-> <<>>]
    /\ isAuthReady = [c \in Clients |-> FALSE]
    /\ userProfile = [c \in Clients |-> <<>>]
    /\ users = [c \in Clients |-> <<>>]
    /\ items = [c \in Clients |-> <<>>]
    /\ chats = [c \in Clients |-> <<>>]
    /\ view = [c \in Clients |-> "login"]
    /\ selectedItem = [c \in Clients |-> <<>>]
    /\ selectedUser = [c \in Clients |-> <<>>]
    /\ selectedChat = [c \in Clients |-> <<>>]
    /\ modal = [c \in Clients |-> ModalClosed]
    /\ pend = [c \in Clients |-> {}]
    /\ subs = [c \in Clients |-> EmptyBag]
    /\ scanError = [c \in Clients |-> <<>>]
    /\ scanWaits = [c \in Clients |-> {}]
    /\ msgSeen = [c \in Clients |-> <<>>]

\* A finder on the way to a chat, whose session ends and is taken over by
\* another account.
SwitchSteps(c) ==
    \/ \E u \in Accounts : HandleAuth(c, u)
    \/ AuthLost(c)
    \/ \E u \in SwitchAccounts : HandleGoogleSignIn(c, u)
    \/ ProfileSnapshot(c)
    \/ ItemsSnapshot(c)
    \/ UsersSnapshot(c)
    \/ ChatsSnapshot(c)
    \/ \E to \in Views : Navigate(c, to)
    \/ \E raw \in ItemIdPool : HandleSubmit(c, raw)
    \/ \E t \in pend[c] : ResolveFetch(c, t)
    \/ HandleStartChat(c)
    \/ \E t \in pend[c] : ResolveStartChat(c, t)
    \/ HandleSend(c, "m1")
    \/ \E t \in pend[c] : ResolveAddMessage(c, t)
    \/ \E t \in pend[c] : ResolveSendMessage(c, t)
    \/ MessagesSnapshot(c)

NextSwitch == \E c \in Clients : SwitchSteps(c)

SpecSwitch == InitSwitch /\ [][NextSwitch]_vars

\* ------------------------------------------------------------------ properties

\* The chat documents of db whose participants are a and b.
PairDocs(db, a, b) ==
    {k \in DOMAIN db : {db[k].participants[1], db[k].participants[2]} = {a, b}}

\* A run of handleStartChat committed its write in this step.
StartChatRan ==
    \/ \E c \in Clients : \E t \in pend[c] : ResolveStartChat(c, t)
    \/ \E u \in Others, id \in DOMAIN itemsDb : OtherStartsChat(u, id)

\* C1: getChatDocId gives the same id for (A, B) and (B, A), and however
\* the runs of handleStartChat by A on an item of B and by B on an item of
\* A are interleaved, the chats collection never holds two documents for
\* the pair and, once one of the runs has written, holds exactly one, whose
\* participants are exactly A and B.
C1_OneChatPerPair ==
    [][\A a, b \in Principals : a # b =>
          /\ getChatDocId(a, b) = getChatDocId(b, a)
          /\ Cardinality(PairDocs(chatsDb', a, b)) <= 1
          /\ StartChatRan =>
                /\ PairDocs(chatsDb', a, b) = {getChatDocId(a, b)}
                /\ DOMAIN chatsDb' = {getChatDocId(a, b)}
                /\ Len(chatsDb'[getChatDocId(a, b)].participants) = 2]_vars

\* C1 happens: the session started a chat on an item of UidB, and UidB
\* then started one on the item of UidA; the store holds the one document.
C1_BothDirectionsRan ==
    /\ selectedChat["c1"] # <<>>
    /\ DOMAIN chatsDb = {getChatDocId(UidA, UidB)}
    /\ chatsDb[getChatDocId(UidB, UidA)].itemId = EarlierItemId

\* What session c displays for the item id: the entry of the items cache
\* (the dashboard list) and currentItem (ItemQRView, UserProfileView).
CacheShows(c, id, status) ==
    id \in DOMAIN items[c] /\ items[c][id].status = status
CurrentShows(c, id, status) ==
    /\ currentItem(c) # <<>>
    /\ currentItem(c)[1].id = id
    /\ currentItem(c)[1].status = status

\* C2: an item enters the store with status missing; an item the store
\* holds as returned stays returned in the store; and a session that
\* displays such an item as returned never displays it as missing again.
C2_StatusOnlyMissingToReturned ==
    [][/\ \A id \in DOMAIN itemsDb' \ DOMAIN itemsDb :
             itemsDb'[id].status = "missing"
       /\ \A id \in DOMAIN itemsDb : itemsDb[id].status = "returned" =>
             /\ id \in DOMAIN itemsDb'
             /\ itemsDb'[id].status = "returned"
             /\ \A c \in Clients :
                   (CacheShows(c, id, "returned") \/ CurrentShows(c, id, "returned"))
                   => /\ ~CacheShows(c, id, "missing")'
                      /\ ~CurrentShows(c, id, "missing")']_vars

\* C2 happens: the session's confirmation was acknowledged for an item
\* that the store and the session's cache hold as returned.
C2_ReturnedAndShown ==
    \E id \in DOMAIN itemsDb :
        /\ itemsDb[id].status = "returned"
        /\ CacheShows("c1", id, "returned")
        /\ CurrentShows("c1", id, "returned")
        /\ modal["c1"] = Notice("Success")

Later(a, b) ==
    \/ a.seconds > b.seconds
    \/ a.seconds = b.seconds /\ a.nanoseconds > b.nanoseconds

\* C4: myItems holds exactly the cached items whose ownerId is the current
\* principal, no returned item precedes a missing one, and within one
\* status no item precedes an item with a later createdAt.
C4_MyItemsOrdered ==
    \A c \in Clients :
        LET l == myItems(c)
            own == {id \in DOMAIN items[c] : items[c][id].ownerId = userId[c]}
        IN  /\ Len(l) = Cardinality(own)
            /\ {l[i] : i \in 1..Len(l)} = {items[c][id] : id \in own}
            /\ \A i, j \in 1..Len(l) : i < j =>
                  /\ ~(l[i].status = "returned" /\ l[j].status = "missing")
                  /\ (l[i].status = l[j].status
                        /\ l[i].createdAt # <<>> /\ l[j].createdAt # <<>>)
                     => ~Later(l[j].createdAt[1], l[i].createdAt[1])

\* C5: when a signed-in principal submits the identifier of a cached item
\* of another owner whose profile is in the users cache, or when the point
\* read for such a scan returns the owner's profile, selectedItem becomes
\* the item, selectedUser the owner's profile and the view user-profile,
\* and no item of the store or the cache changes.
C5_ScanOfOthersItemSucceeds ==
    [][\A c \in Clients :
          /\ \A raw \in Submittable(c) :
                LET itemId == Trim(raw)
                IN  (/\ HandleSubmit(c, raw)
                     /\ userId[c] # <<>>
                     /\ itemId \in DOMAIN items[c]
                     /\ items[c][itemId].ownerId # userId[c]
                     /\ items[c][itemId].ownerId \in DOMAIN users[c])
                    => /\ selectedItem'[c] = <<items[c][itemId]>>
                       /\ selectedUser'[c] =
                              <<users[c][items[c][itemId].ownerId]>>
                       /\ view'[c] = "user-profile"
                       /\ itemsDb' = itemsDb /\ items' = items
          /\ \A t \in pend[c] :
                (ResolveFetch(c, t) /\ t.item[1].ownerId \in DOMAIN privProfiles)
                => /\ selectedItem'[c] = t.item
                   /\ selectedUser'[c] = <<privProfiles[t.item[1].ownerId]>>
                   /\ view'[c] = "user-profile"
                   /\ itemsDb' = itemsDb /\ items' = items]_vars

\* C5 happens: a scan showed the session the profile of UidB as the owner
\* of an item that is still missing.
C5_OwnerShown ==
    /\ view["c1"] = "user-profile"
    /\ selectedItem["c1"] # <<>> /\ selectedUser["c1"] # <<>>
    /\ selectedItem["c1"][1].ownerId = UidB
    /\ selectedUser["c1"][1].uid = UidB
    /\ selectedItem["c1"][1].id \in DOMAIN itemsDb
    /\ itemsDb[selectedItem["c1"][1].id].status = "missing"

\* The messages `No item found with ID: ...`.
IsNotFoundMessage(m) ==
    /\ Len(m) >= Len(MsgNoItem(<<>>))
    /\ SubSeq(m, 1, Len(MsgNoItem(<<>>))) = MsgNoItem(<<>>)

\* C6: when a signed-in principal submits the identifier of a cached item
\* it owns, the item is selected, the view becomes item-qr, no point read
\* is left that could show user-profile, and handleScanResult is rejected
\* with a message that is not a no-item-found message.
C6_SelfScanShowsOwnCode ==
    [][\A c \in Clients : \A raw \in Submittable(c) :
          LET itemId == Trim(raw)
          IN  (/\ HandleSubmit(c, raw)
               /\ userId[c] # <<>>
               /\ itemId \in DOMAIN items[c]
               /\ items[c][itemId].ownerId = userId[c])
              => /\ selectedItem'[c] = <<items[c][itemId]>>
                 /\ view'[c] = "item-qr"
                 /\ pend' = pend
                 /\ handleScanResult(c, itemId).result = "rejected"
                 /\ handleScanResult(c, itemId).message # <<>>
                 /\ ~IsNotFoundMessage(handleScanResult(c, itemId).message)]_vars

\* C6 happens: the session shows the code of its own item as the cache holds
\* it (with the server's createdAt), which only a scan selects.
C6_OwnItemSelectedByScan ==
    /\ view["c1"] = "item-qr"
    /\ selectedItem["c1"] # <<>>
    /\ selectedItem["c1"][1].ownerId = userId["c1"]
    /\ selectedItem["c1"][1].createdAt # <<>>

\* C7: handleMarkReturned changes nothing in the store, suspends no write
\* and opens the modal that asks to confirm the return of the selected
\* item; a status write is suspended only by the modal's confirm action;
\* the cancel action closes the modal and changes neither the store, nor
\* selectedItem, nor the suspended writes.
C7_ReturnNeedsConfirmation ==
    [][\A c \in Clients :
          /\ HandleMarkReturned(c) =>
                /\ storeVars' = storeVars
                /\ pend' = pend
                /\ modal'[c].isOpen
                /\ modal'[c].item # <<>>
                /\ modal'[c].item[1].id = selectedItem[c][1].id
          /\ (\E t \in pend'[c] \ pend[c] : t.kind = "markReturned") =>
                ModalConfirm(c)
          /\ ModalCancel(c) =>
                /\ storeVars' = storeVars
                /\ selectedItem' = selectedItem
                /\ pend' = pend
                /\ ~modal'[c].isOpen]_vars

\* C7 happens: handleMarkReturned ran and the modal asks to confirm the
\* return of an item that the store still holds as missing.
C7_ConfirmationAsked ==
    /\ modal["c1"].isOpen
    /\ modal["c1"].item # <<>>
    /\ modal["c1"].item[1].id \in DOMAIN itemsDb
    /\ itemsDb[modal["c1"].item[1].id].status = "missing"
    /\ pend["c1"] = {}

\* The dashboard list of session c has the item id as returned.
OwnerShowsReturned(c, id) ==
    \E i \in 1..Len(myItems(c)) :
        myItems(c)[i].id = id /\ myItems(c)[i].status = "returned"

\* The store holds a completed profile of the principal of session c: one
\* whose name is not the placeholder's.
ProfileCompleted(c) ==
    /\ userId[c] \in DOMAIN privProfiles
    /\ privProfiles[userId[c]].name # AnonymousUser

\* C8: when the store holds an item returned whose owner is signed in and
\* has a completed profile in the store, then, notifications being
\* delivered, the owner's myItems comes to show the item as returned, by
\* listener callbacks alone, unless before that the owner signs out or the
\* stored profile is replaced by one that is not completed.
C8_OwnerSeesReturn ==
    \A c \in Clients, id \in ItemIdPool :
        (/\ id \in DOMAIN itemsDb
         /\ itemsDb[id].status = "returned"
         /\ itemsDb[id].ownerId = userId[c]
         /\ isAuthReady[c]
         /\ ProfileCompleted(c))
        ~> (OwnerShowsReturned(c, id) \/ userId[c] = <<>> \/ ~ProfileCompleted(c))

\* C8 happens: another user confirmed the return of the session's item and
\* the session's dashboard list shows it returned.
C8_ReturnSeen ==
    \E id \in DOMAIN itemsDb :
        /\ itemsDb[id].status = "returned"
        /\ itemsDb[id].ownerId = UidA
        /\ userId["c1"] = UidA
        /\ DataListening("c1")
        /\ view["c1"] = "dashboard"
        /\ OwnerShowsReturned("c1", id)

\* C9: a step is a submission of the text s exactly if it is a submission
\* of trim(s), and handleScanResult settles the same way, with the same
\* message, item, user and view, for both.
C9_ScanDependsOnTrimmedId ==
    [][\A c \in Clients : \A raw \in Submittable(c) :
          /\ HandleSubmit(c, raw) <=> HandleSubmit(c, Trim(raw))
          /\ (view[c] = "scan" /\ Trim(raw) # <<>>) =>
                handleScanResult(c, SubmittedId(raw))
                    = handleScanResult(c, SubmittedId(Trim(raw)))]_vars

\* C9 happens: a submission at the scan view waits for the point read of
\* the owner's profile.
C9_ScanSubmitted ==
    /\ view["c1"] = "scan"
    /\ \E t \in pend["c1"] : t.kind = "fetch" /\ t.item[1].ownerId = UidB

\* C10: when the auth state comes to report no principal the view becomes
\* login, and while no principal is signed in the view stays login.
C10_SignedOutStaysAtLogin ==
    [][\A c \in Clients :
          /\ (userId[c] # <<>> /\ userId'[c] = <<>>) => view'[c] = "login"
          /\ (userId[c] = <<>> /\ view[c] = "login" /\ userId'[c] = <<>>)
                => view'[c] = "login"]_vars

\* The views renderView shows to a signed-in user.
AuthenticatedViews ==
    {"dashboard", "add-item", "item-qr", "scan", "user-profile", "chat"}

\* C11: in every state where a principal is signed in and the view is one
\* of the authenticated views, the session holds one items, one users and
\* one chats subscription registered for that principal.
C11_DataSubscriptionsActive ==
    \A c \in Clients :
        (userId[c] # <<>> /\ view[c] \in AuthenticatedViews) =>
            \A p \in {"items", "users", "chats"} :
                CopiesIn(Sub(p, userId[c], <<>>), subs[c]) = 1

\* The number of subscriptions session c holds with the purpose p.
Active(c, p) == BagCardinality(ByPurpose(c, {p}))

\* C12: while a principal is signed in and the view is not chat the session
\* holds no messages subscription, and while the view is chat with a
\* selected chat it holds one, for the selected chat.
C12_MessagesOnlyInChat ==
    \A c \in Clients :
        /\ (userId[c] # <<>> /\ view[c] # "chat") => Active(c, "messages") = 0
        /\ (view[c] = "chat" /\ selectedChat[c] # <<>>) =>
              /\ Active(c, "messages") = 1
              /\ \A x \in BagToSet(ByPurpose(c, {"messages"})) :
                    x.chat = selectedChat[c][1].id

Purposes == {"profile", "items", "users", "chats", "messages"}

\* C13: the unsubscribe calls of a step each cancel a subscription that is
\* active, once; after the step no subscription is active that was made for
\* a principal other than the current one, and no two subscriptions of one
\* purpose are active.
C13_SubscriptionsCancelledOnce ==
    [][\A c \in Clients :
          /\ \A x \in BagToSet(Cleanups(c)) :
                CopiesIn(x, Cleanups(c)) = 1 /\ CopiesIn(x, subs[c]) = 1
          /\ \A x \in BagToSet(subs'[c]) : x.uid = userId'[c]
          /\ \A p \in Purposes : Active(c, p)' <= 1]_vars

\* A run of handleScanResult for itemId by session c fails for one of the
\* two reasons: no item is known under the identifier, or the item is known
\* and its owner's profile is not in the users cache.
ScanFindsNothing(c, itemId) ==
    /\ userId[c] # <<>>
    /\ LET o == handleScanResult(c, itemId)
       IN  \/ o.result = "rejected" /\ o.message \in {MsgNoItem(itemId), MsgNoOwner}
           \/ o.result = "pending"

\* Tasks that write to the store.
WriteKinds == {"profileSetup", "addItem", "startChat", "markReturned"}

\* C14: a submission at the scan view whose identifier is unknown leaves
\* the view at scan, shows an error, and changes neither the selections nor
\* the store nor the suspended handlers; one that has to read the owner's
\* profile suspends a read only; and when that read returns no profile or
\* fails, the view, the selections and the store are as before the read
\* returned, no write is suspended, and the ScanView that submitted shows
\* an error.
C14_FailedScanChangesNothing ==
    [][\A c \in Clients :
          /\ \A raw \in Submittable(c) :
                (HandleSubmit(c, raw) /\ ScanFindsNothing(c, Trim(raw))) =>
                    /\ view'[c] = "scan"
                    /\ selVars' = selVars
                    /\ storeVars' = storeVars
                    /\ \A t \in pend'[c] \ pend[c] : t.kind \notin WriteKinds
                    /\ handleScanResult(c, Trim(raw)).result = "rejected" =>
                          /\ pend' = pend
                          /\ scanError'[c] # <<>>
          /\ \A t \in pend[c] :
                (\/ FailFetch(c, t)
                 \/ ResolveFetch(c, t) /\ t.item[1].ownerId \notin DOMAIN privProfiles)
                => /\ view' = view
                   /\ selVars' = selVars
                   /\ storeVars' = storeVars
                   /\ pend'[c] = pend[c] \ {t}
                   /\ t \in scanWaits[c] =>
                         view'[c] = "scan" /\ scanError'[c] = MsgNoOwner]_vars

\* C14 happens: the session is signed in, the point read for a scanned item
\* of UidB found no profile or failed, and the ScanView shows the error;
\* nothing is selected, and the store holds UidB's item and no profile of
\* UidB.
C14_ScanFailedOnOwner ==
    /\ view["c1"] = "scan"
    /\ userId["c1"] = UidA
    /\ scanError["c1"] = MsgNoOwner
    /\ pend["c1"] = {}
    /\ selectedItem["c1"] = <<>> /\ selectedUser["c1"] = <<>>
    /\ \E id \in DOMAIN items["c1"] : items["c1"][id].ownerId = UidB
    /\ UidB \notin DOMAIN privProfiles

\* C15: when the point read of a waiting scan fails, the step differs from
\* the step the handler takes when the read succeeds and finds no profile:
\* the session can tell a failed read from a profile that does not exist.
C15_ReadErrorDistinguished ==
    [][\A c \in Clients : \A t \in pend[c] :
          FailFetch(c, t) =>
              /\ ~Fetched(c, t, GetDocNotFound)
              /\ fetchProfileByUid(GetDocFails) # fetchProfileByUid(GetDocNotFound)]_vars

\* The store holds the item selected in session c with status missing.
SelectedIsMissing(c) ==
    /\ selectedItem[c] # <<>>
    /\ selectedItem[c][1].id \in DOMAIN itemsDb
    /\ itemsDb[selectedItem[c][1].id].status = "missing"

\* C16: a run of handleStartChat is started, its chat document is written
\* and the view becomes chat only in a step before which the store holds
\* the selected item with status missing.
C16_ChatOnlyForMissingItem ==
    [][\A c \in Clients :
          /\ HandleStartChat(c) => SelectedIsMissing(c)
          /\ \A t \in pend[c] : ResolveStartChat(c, t) => SelectedIsMissing(c)
          /\ (view[c] # "chat" /\ view'[c] = "chat") => SelectedIsMissing(c)]_vars

\* The store write that the suspended handler t of session c awaits fails.
WriteFails(c, t) ==
    \/ FailProfileSetup(c, t)
    \/ FailAddItem(c, t)
    \/ FailStartChat(c, t)
    \/ FailMarkReturned(c, t)

\* C17: when the write that handleProfileSetup, handleAddItem,
\* handleStartChat or the confirmed handleMarkReturned awaits fails, the
\* handler ends in its catch: a notice with an OK button is open, the view
\* and the selections are as before the failure, and the store is
\* unchanged.
C17_WriteFailureShowsNotice ==
    [][\A c \in Clients : \A t \in pend[c] :
          WriteFails(c, t) =>
              /\ modal'[c] \in {Notice("Error"), Notice("Chat Error")}
              /\ view' = view
              /\ selVars' = selVars
              /\ storeVars' = storeVars
              /\ pend'[c] = pend[c] \ {t}]_vars

\* C17 happens: the write of handleStartChat failed; the notice is open at
\* the owner's profile, with the item and the owner still selected and no
\* chat selected.
C17_ChatErrorShown ==
    /\ modal["c1"] = Notice("Chat Error")
    /\ view["c1"] = "user-profile"
    /\ selectedItem["c1"] # <<>> /\ selectedUser["c1"] # <<>>
    /\ selectedChat["c1"] = <<>>
    /\ pend["c1"] = {}
    /\ DOMAIN chatsDb = {}

\* C18: notifications being delivered, a session whose identity is resolved
\* with a principal and whose view is login comes to leave the login view
\* (for profile-setup or the dashboard), unless the principal signs out
\* before.
C18_SignedInLeavesLogin ==
    \A c \in Clients :
        (userId[c] # <<>> /\ isAuthReady[c] /\ view[c] = "login")
        ~> (view[c] # "login" \/ userId[c] = <<>>)

\* An attempt that the suspended handler t of session c awaits fails.
AttemptFails(c, t) ==
    \/ SignInFails(c, t)
    \/ FailFetch(c, t)
    \/ WriteFails(c, t)

\* C19: in a step in which a sign-in, a point read or a store write fails,
\* the handler that awaited it ends and no attempt is issued: the handlers
\* suspended after the step are those suspended before it, without the one
\* that failed.
C19_NoAutomaticRetry ==
    [][\A c \in Clients : \A t \in pend[c] :
          AttemptFails(c, t) => pend'[c] \subseteq pend[c] \ {t}]_vars

\* The list of messages a chat object holds (none without the field).
MessagesHeld(chat) == IF chat.messages = <<>> THEN <<>> ELSE chat.messages[1]

\* The position of the message m in the messages subcollection of chatId.
AddedAt(db, chatId, m) ==
    CHOOSE i \in 1..Len(db[chatId]) : db[chatId][i].id = m.id

\* C20: the messages of the selected chat are in ascending order of their
\* timestamps, those of one sender are in the order in which they were
\* added, and while the same chat stays selected the list only grows at
\* its end: the list held before a step is a prefix of the list held after.
C20_MessagesAppendOnly ==
    [][\A c \in Clients :
          (selectedChat[c] # <<>> /\ selectedChat'[c] # <<>>
           /\ selectedChat'[c][1].id = selectedChat[c][1].id) =>
              LET old == MessagesHeld(selectedChat[c][1])
                  new == MessagesHeld(selectedChat'[c][1])
              IN  /\ \A i, j \in 1..Len(new) : i < j =>
                        /\ Before(new[i].timestamp, new[j].timestamp)
                        /\ new[i].senderId = new[j].senderId =>
                              AddedAt(messagesDb', selectedChat[c][1].id, new[i])
                                < AddedAt(messagesDb', selectedChat[c][1].id, new[j])
                  /\ Len(old) <= Len(new)
                  /\ SubSeq(new, 1, Len(old)) = old]_vars

\* C21: when handleProfileSetup or handleSendMessage ends in its catch, no
\* write of that run has been acknowledged, and the store holds the private
\* profile of the run's principal exactly if it holds the public copy.
C21_FailedHandlerWroteNothing ==
    [][\A c \in Clients : \A t \in pend[c] :
          /\ FailProfileSetup(c, t) =>
                /\ t.acked = 0
                /\ (t.uid \in DOMAIN privProfiles') = (t.uid \in DOMAIN pubProfiles')
          /\ FailSendMessage(c, t) => t.acked = 0]_vars

C23_OwnItemShown ==
    \A c \in Clients :
        (view[c] = "item-qr" /\ userId[c] # <<>>) =>
            /\ selectedItem[c] # <<>>
            /\ selectedItem[c][1].ownerId = userId[c]

\* C24: when the continuation of handleAddItem, handleScanResult or
\* handleStartChat changes the view, the view it leaves is the one the handler
\* was started from: add-item, scan and user-profile respectively.
C24_ViewChangesFromOrigin ==
    [][\A c \in Clients : \A t \in pend[c] :
          view'[c] # view[c] =>
              /\ ResolveAddItem(c, t) => view[c] = "add-item"
              /\ (ResolveFetch(c, t) \/ FailFetch(c, t)) => view[c] = "scan"
              /\ ResolveStartChat(c, t) => view[c] = "user-profile"]_vars

\* C25: getChatDocId gives different ids for different unordered pairs of
\* principals, also when an identifier contains '_': a run of
\* handleStartChat that writes to a chat document which exists already finds
\* its own pair as the participants.
C25_PairsDoNotShareChat ==
    [][\A u \in UidPool, id \in DOMAIN itemsDb :
          LET owner == itemsDb[id].ownerId
              chatId == getChatDocId(u, owner)
          IN  (OtherStartsChat(u, id) /\ chatId \in DOMAIN chatsDb) =>
                  /\ PairDocs(chatsDb, u, owner) = {chatId}
                  /\ \A c, d \in UidPool :
                        getChatDocId(c, d) = chatId => {c, d} = {u, owner}]_vars

\* The principals of a chat document.
ParticipantsOf(db, chatId) ==
    IF chatId \in DOMAIN db
    THEN {db[chatId].participants[i] : i \in 1..Len(db[chatId].participants)}
    ELSE {}

\* C26: the chat document that a run of handleStartChat writes has two
\* different participants and the principal who started the run is one of
\* them; the message that a run of handleSendMessage adds has as senderId a
\* participant of the chat it is added to.
C26_WritersAreParticipants ==
    [][\A c \in Clients : \A t \in pend[c] :
          /\ ResolveStartChat(c, t) =>
                /\ Len(chatsDb'[ChatDoc(t).id].participants) = 2
                /\ Cardinality(ParticipantsOf(chatsDb', ChatDoc(t).id)) = 2
                /\ t.uid \in ParticipantsOf(chatsDb', ChatDoc(t).id)
          /\ ResolveAddMessage(c, t) =>
                t.uid \in ParticipantsOf(chatsDb', t.chat[1].id)]_vars

====
